---------------------------- MODULE Spec2Model ----------------------------
(***************************************************************************)
(* A model of the intcode interpreter and its noun/verb search             *)
(* (src/day_2/src/main.rs).                                                *)
(*                                                                         *)
(* Memory cells are Rust i64 values.  They are modelled exactly, as eight  *)
(* bytes in two's complement, least significant byte first, because the    *)
(* cells come from the parsed input and their sums and products can leave  *)
(* the i64 range.  Addresses are Rust usize values of a 64-bit target.     *)
(***************************************************************************)
EXTENDS Integers, Sequences, FiniteSets, TLC

(***************************************************************************)
(* type Value = i64                                                        *)
(***************************************************************************)
ValueBytes == 8

ByteBase == 256

WideBytes == 2 * ValueBytes

\* The eight bytes of a natural number below 2^31.
NatBytes(m) ==
    [i \in 1..ValueBytes |->
        IF i <= 4 THEN (m \div (ByteBase ^ (i - 1))) % ByteBase ELSE 0]

\* The i64 whose value is the integer n (|n| < 2^31): an integer literal of
\* the source, or a parsed cell.
I64(n) ==
    IF n >= 0
    THEN NatBytes(n)
    ELSE [i \in 1..ValueBytes |-> (ByteBase - 1) - NatBytes(-n - 1)[i]]

\* 2^62, a cell value whose double and whose square leave the i64 range.
Big == [i \in 1..ValueBytes |-> IF i = ValueBytes THEN 64 ELSE 0]

\* F(v), with v computed once however often F uses it.
Eager(v, F(_)) == CHOOSE r \in {F(x) : x \in {v}} : TRUE

IsNegative(v) == v[Len(v)] >= ByteBase \div 2

\* v widened to 128 bits, keeping its value.
SignExtend(v) ==
    Eager(v, LAMBDA w :
        w \o [i \in 1..(WideBytes - Len(w)) |->
                 IF IsNegative(w) THEN ByteBase - 1 ELSE 0])

\* Schoolbook addition and multiplication of two numbers of the same
\* number of bytes, from byte i (column k) on, modulo 256^Len.
RECURSIVE AddFrom(_, _, _, _)
AddFrom(x, y, i, carry) ==
    IF i > Len(x) THEN <<>>
    ELSE Eager(x[i] + y[i] + carry,
               LAMBDA s : <<s % ByteBase>> \o AddFrom(x, y, i + 1, s \div ByteBase))

RECURSIVE ColumnSum(_, _, _, _)
ColumnSum(x, y, k, i) ==
    IF i > k THEN 0
    ELSE x[i] * y[k + 1 - i] + ColumnSum(x, y, k, i + 1)

RECURSIVE MulFrom(_, _, _, _)
MulFrom(x, y, k, carry) ==
    IF k > Len(x) THEN <<>>
    ELSE Eager(ColumnSum(x, y, k, 1) + carry,
               LAMBDA s : <<s % ByteBase>> \o MulFrom(x, y, k + 1, s \div ByteBase))

\* The mathematical sum and product of two i64 values, in 128 bits (neither
\* can leave that range).
WideAdd(a, b) ==
    Eager(SignExtend(a), LAMBDA x :
        Eager(SignExtend(b), LAMBDA y : AddFrom(x, y, 1, 0)))

WideMul(a, b) ==
    Eager(SignExtend(a), LAMBDA x :
        Eager(SignExtend(b), LAMBDA y : MulFrom(x, y, 1, 0)))

\* Whether a 128-bit value is in the i64 range.
FitsValue(w) == SignExtend(SubSeq(w, 1, ValueBytes)) = w

\* a + b and a * b as a release build computes them: modulo 2^64.
WrappingAdd(a, b) == SubSeq(WideAdd(a, b), 1, ValueBytes)

WrappingMul(a, b) == SubSeq(WideMul(a, b), 1, ValueBytes)

\* Whether the sum (product) is outside the i64 range: a debug build
\* panics with "attempt to add (multiply) with overflow".
AddOverflows(a, b) == Eager(WideAdd(a, b), LAMBDA w : ~FitsValue(w))

MulOverflows(a, b) == Eager(WideMul(a, b), LAMBDA w : ~FitsValue(w))

(***************************************************************************)
(* type Address = usize                                                    *)
(***************************************************************************)
\* Every address above the integers of the model is represented by this
\* one: each of them is past the end of every Vec the model holds.
HugeAddress == 2147483647

\* `value as Address`: the 64 bits of the i64 read as an unsigned number,
\* so a negative value becomes an address of at least 2^63.
AsAddress(v) ==
    IF (\A i \in 5..ValueBytes : v[i] = 0) /\ v[4] < ByteBase \div 2
    THEN v[1] + ByteBase * v[2] + ByteBase * ByteBase * v[3]
            + ByteBase * ByteBase * ByteBase * v[4]
    ELSE HugeAddress

(***************************************************************************)
(* impl Memory for IntcodeProgram: raw_program is a Vec<Value>, modelled   *)
(* as the sequence of its cells; Rust's address a is index a + 1.  Indexing*)
(* a Vec past its end panics.                                              *)
(***************************************************************************)
InBounds(raw_program, address) == address >= 0 /\ address < Len(raw_program)

ReadAt(raw_program, address) == raw_program[address + 1]

\* A memory that grows on a write past its end instead of panicking.
WriteAtGrowing(raw_program, value, address) ==
    IF address = HugeAddress
    THEN [panicked |-> TRUE, raw_program |-> raw_program]
    ELSE [panicked |-> FALSE,
          raw_program |->
              [i \in 1..(IF address < Len(raw_program)
                         THEN Len(raw_program) ELSE address + 1) |->
                  IF i = address + 1 THEN value
                  ELSE IF i <= Len(raw_program) THEN raw_program[i]
                  ELSE I64(0)]]

\* A write_at that inserts the value at the index (Vec::insert), moving the
\* cells from there on up by one.
WriteAtInsert(raw_program, value, address) ==
    IF InBounds(raw_program, address)
    THEN [panicked |-> FALSE,
          raw_program |-> SubSeq(raw_program, 1, address) \o <<value>>
                            \o SubSeq(raw_program, address + 1, Len(raw_program))]
    ELSE [panicked |-> TRUE, raw_program |-> raw_program]

\* write_at: the Vec after the call, or panicked when the index is past
\* the end (the Vec is then as it was).
WriteAt(raw_program, value, address) ==
    IF InBounds(raw_program, address)
    THEN [panicked |-> FALSE,
          raw_program |-> [raw_program EXCEPT ![address + 1] = value]]
    ELSE [panicked |-> TRUE, raw_program |-> raw_program]

(***************************************************************************)
(* Cpu::instruction_at.  The result is the decoded Instruction, or Panic   *)
(* when a read_at of the decoding indexes past the end; reads lists the    *)
(* addresses handed to read_at, in order, the failing one included.        *)
(***************************************************************************)
\* The match on the opcode: the variant each opcode value decodes to.
DecodeOpcodeStrict(opcode) ==
    CASE opcode = I64(1)  -> "Add"
      [] opcode = I64(2)  -> "Mult"
      [] opcode = I64(99) -> "Halt"
      [] OTHER            -> "Panic"

DecodeOpcode(opcode) ==
    CASE opcode = I64(1)  -> "Add"
      [] opcode = I64(2)  -> "Mult"
      [] opcode = I64(99) -> "Halt"
      [] OTHER            -> "Halt"   \* "this should error instead"

\* The operand cells the arm of a variant reads after the opcode cell.
OperandCellsFixedWidth(tag) == 3

OperandCells(tag) == IF tag \in {"Add", "Mult"} THEN 3 ELSE 0

\* The addresses of the operand cells read, up to the first one past the end.
OperandReads(raw_program, address, n) ==
    LET bad == {k \in 1..n : ~InBounds(raw_program, address + k)}
        m   == IF bad = {} THEN n ELSE CHOOSE k \in bad : \A j \in bad : k <= j
    IN  [k \in 1..m |-> address + k]

Decoded(address, raw_program, tag, reads) ==
    IF tag = "Panic" \/ ~InBounds(raw_program, reads[Len(reads)])
    THEN [tag |-> "Panic", reads |-> reads]
    ELSE IF tag = "Halt"
    THEN [tag |-> "Halt", reads |-> reads]
    ELSE [tag     |-> tag,
          param_0 |-> AsAddress(ReadAt(raw_program, address + 1)),
          param_1 |-> AsAddress(ReadAt(raw_program, address + 2)),
          res     |-> AsAddress(ReadAt(raw_program, address + 3)),
          reads   |-> reads]

InstructionAt(address, raw_program) ==
    IF ~InBounds(raw_program, address)
    THEN [tag |-> "Panic", reads |-> <<address>>]
    ELSE Eager(DecodeOpcode(ReadAt(raw_program, address)),
               LAMBDA tag :
                   Decoded(address, raw_program, tag,
                           <<address>> \o OperandReads(raw_program, address,
                                                       OperandCells(tag))))

(***************************************************************************)
(* One iteration of the loop of Cpu::execute, get_next_instruction         *)
(* included: what it leaves in the memory and the pointer, and how it ends *)
(* (continue: the loop goes on; return: Halt; panic).                      *)
(***************************************************************************)
ArithmeticAddOnly(tag, a, b) == WrappingAdd(a, b)

Arithmetic(tag, a, b) ==
    IF tag = "Add" THEN WrappingAdd(a, b) ELSE WrappingMul(a, b)

Overflows(tag, a, b) ==
    IF tag = "Add" THEN AddOverflows(a, b) ELSE MulOverflows(a, b)

AdvancePointerByOne(instruction_ptr) == instruction_ptr + 1

AdvancePointerNot(instruction_ptr) == instruction_ptr

AdvancePointerByEight(instruction_ptr) == instruction_ptr + 8

\* get_next_instruction: self.instruction_ptr += 4
AdvancePointer(instruction_ptr) == instruction_ptr + 4

\* The match of execute on a decoded Add or Mult, the pointer already
\* advanced to next: the eprintln! reads both operands, then the statement
\* reads them again, computes, and writes.
ExecuteArithmetic(instruction, at, next, raw_program, checks) ==
    LET p0 == instruction.param_0
        p1 == instruction.param_1
        res == instruction.res
        end(memory, result, kind, reads, writes) ==
            [raw_program |-> memory, tag |-> instruction.tag, at |-> at,
             instruction_ptr |-> next, result |-> result, panic |-> kind,
             reads |-> instruction.reads \o reads, writes |-> writes]
    IN  IF ~InBounds(raw_program, p0)
        THEN end(raw_program, "panic", "bounds", <<p0>>, <<>>)
        ELSE IF ~InBounds(raw_program, p1)
        THEN end(raw_program, "panic", "bounds", <<p0, p1>>, <<>>)
        ELSE IF checks /\ Overflows(instruction.tag, ReadAt(raw_program, p0),
                                    ReadAt(raw_program, p1))
        THEN end(raw_program, "panic", "overflow", <<p0, p1, p0, p1>>, <<>>)
        ELSE Eager(WriteAt(raw_program,
                           Arithmetic(instruction.tag, ReadAt(raw_program, p0),
                                      ReadAt(raw_program, p1)),
                           res),
                   LAMBDA written :
                       IF written.panicked
                       THEN end(raw_program, "panic", "bounds",
                                <<p0, p1, p0, p1>>, <<res>>)
                       ELSE end(written.raw_program, "continue", "none",
                                <<p0, p1, p0, p1>>, <<res>>))

ExecuteDecoded(instruction, instruction_ptr, raw_program, checks) ==
    IF instruction.tag = "Panic"
    THEN \* instruction_at panicked: the pointer was not advanced
         [raw_program |-> raw_program, tag |-> "Panic", at |-> instruction_ptr,
          instruction_ptr |-> instruction_ptr, result |-> "panic",
          panic |-> "bounds", reads |-> instruction.reads, writes |-> <<>>]
    ELSE IF instruction.tag = "Halt"
    THEN [raw_program |-> raw_program, tag |-> "Halt", at |-> instruction_ptr,
          instruction_ptr |-> AdvancePointer(instruction_ptr),
          result |-> "return", panic |-> "none",
          reads |-> instruction.reads, writes |-> <<>>]
    ELSE ExecuteArithmetic(instruction, instruction_ptr,
                           AdvancePointer(instruction_ptr), raw_program, checks)

ExecuteStep(instruction_ptr, raw_program, checks) ==
    Eager(InstructionAt(instruction_ptr, raw_program),
          LAMBDA instruction :
              ExecuteDecoded(instruction, instruction_ptr, raw_program, checks))

(***************************************************************************)
(* The state.  Every Vec lives in the heap under the identifier of its     *)
(* buffer, and an IntcodeProgram holds the identifier of its raw_program,  *)
(* so that two programs sharing storage is a state the model can express.  *)
(***************************************************************************)
VARIABLES
    overflow_checks,  \* the build: TRUE debug (overflow panics), FALSE release
    heap,             \* buffer identifier -> the cells of that Vec<Value>
    program,          \* main: the template IntcodeProgram
    program_copy,     \* try_with: the trial's IntcodeProgram
    second_copy,      \* a second clone, alive with the first
    cpu,              \* try_with: the trial's Cpu
    noun, verb,       \* main: the loop variables
    pc,               \* the statement about to run
    stdout,           \* what main has printed
    panic,            \* "none", or the kind of panic that ended the process
    input,            \* history: the cells as parsed
    ntrials,          \* history: the number of calls of try_with
    matched,          \* history: 100*noun+verb of the trials that read the target
    last,             \* history: the last iteration of the execute loop
    executed,         \* history: Add/Mult instructions completed by this Cpu
    snapshot          \* history: the cells each program had when it was made,
                      \* with the writes made to that program since

\* The state of the wire puzzle (src/day_3) and of the password puzzle
\* (src/day_4); pc and panic above are shared by the three programs.
VARIABLES
    base_edge,        \* tests: an Edge
    crossing_edge,    \* tests: another Edge
    crossed,          \* tests: <<>>, or the results of is_crossing, both ways
    wire_0, wire_1,   \* main: the two Wires, each the sequence of its edges
    get_intersections,\* get_intersections: its locals, <<>> before the call
    silly_number,     \* a SillyNumber: number and digits
    is_valid_password \* <<>>, or the value is_valid_password returned

day_2_vars == <<overflow_checks, heap, program, program_copy, cpu, noun, verb,
                stdout, input, ntrials, matched, last, executed, second_copy,
                snapshot>>

day_3_vars == <<base_edge, crossing_edge, crossed, wire_0, wire_1,
                get_intersections>>

day_4_vars == <<silly_number, is_valid_password>>

vars == <<overflow_checks, heap, program, program_copy, cpu, noun, verb, pc,
          stdout, panic, input, ntrials, matched, last, executed, second_copy,
          snapshot, day_3_vars, day_4_vars>>

NoProgram == [raw_program |-> 0]

NoCpu == [instruction_ptr |-> -1]

NoSnapshot == [program |-> <<>>, program_copy |-> <<>>, second_copy |-> <<>>]

NoStep == [at |-> -1, tag |-> "None", result |-> "none",
           reads |-> <<>>, writes |-> <<>>]

NoEdge == [direction |-> "None", magnitude |-> 0, origin |-> [x |-> 0, y |-> 0]]

NoSillyNumber == [number |-> 0, digits |-> <<>>]

\* The wire puzzle and the password puzzle are not running.
Day3Idle ==
    /\ base_edge = NoEdge /\ crossing_edge = NoEdge /\ crossed = <<>>
    /\ wire_0 = <<>> /\ wire_1 = <<>> /\ get_intersections = <<>>

Day4Idle == silly_number = NoSillyNumber /\ is_valid_password = <<>>

\* A memory that is read as the parsed image, whatever was written since.
MemoryAsParsed == input

\* The memory the Cpu runs against.
Memory == heap[program_copy.raw_program]

(***************************************************************************)
(* Memory images.                                                          *)
(***************************************************************************)
MaxLen == 4

CellValues == {I64(-1), I64(0), I64(1), I64(2), I64(4), I64(99), Big}

RECURSIVE SeqsOfLen(_, _)
SeqsOfLen(S, n) ==
    IF n = 0 THEN {<<>>}
    ELSE {Append(q, x) : q \in SeqsOfLen(S, n - 1), x \in S}

FromVec(v) == [i \in 1..Len(v) |-> I64(v[i])]

\* The memory images of the testable properties of the specification.
Examples ==
    { FromVec(<<1, 0, 0, 0, 99>>),
      FromVec(<<2, 3, 0, 3, 99>>),
      FromVec(<<1, 1, 1, 4, 99, 5, 6, 0, 99>>),
      FromVec(<<2, 4, 4, 5, 99, 0>>),
      FromVec(<<1, 9, 10, 3, 2, 3, 11, 0, 99, 30, 40, 50>>) }

\* Images whose arithmetic leaves the i64 range: 2^62 + 2^62, 2^62 * 2^62.
OverflowExamples ==
    { <<I64(1), I64(4), I64(4), I64(0), Big>>,
      <<I64(2), I64(4), I64(4), I64(0), Big>>,
      <<I64(1), I64(4), I64(4), I64(5), Big, I64(99)>> }

Images ==
    UNION {SeqsOfLen(CellValues, n) : n \in 1..MaxLen}
        \cup Examples \cup OverflowExamples

(***************************************************************************)
(* Cpu::new and Cpu::execute.                                              *)
(***************************************************************************)
CpuNew == [instruction_ptr |-> 0]

\* One iteration of the loop of execute on the trial's memory.
Execute ==
    /\ pc = "execute"
    /\ \E r \in {ExecuteStep(cpu.instruction_ptr, Memory, overflow_checks)} :
           /\ heap' = [heap EXCEPT ![program_copy.raw_program] = r.raw_program]
           /\ cpu' = [instruction_ptr |-> r.instruction_ptr]
           /\ pc' = CASE r.result = "continue" -> "execute"
                      [] r.result = "return"   -> "compare"
                      [] r.result = "panic"    -> "aborted"
           /\ panic' = r.panic
           /\ last' = [at |-> r.at, tag |-> r.tag, result |-> r.result,
                       reads |-> r.reads, writes |-> r.writes]
           /\ executed' = IF r.result = "continue" THEN executed + 1 ELSE executed
    /\ UNCHANGED <<second_copy, snapshot>>
    /\ UNCHANGED <<day_3_vars, day_4_vars>>
    /\ UNCHANGED <<overflow_checks, program, program_copy, noun, verb, stdout,
                   input, ntrials, matched>>

(***************************************************************************)
(* SpecCpu: a program is made of one memory image (from_vec) and a fresh   *)
(* Cpu executes it, in either build.                                       *)
(***************************************************************************)
InitCpu ==
    /\ overflow_checks \in BOOLEAN
    /\ Day3Idle /\ Day4Idle
    /\ heap = <<>>
    /\ input = <<>>
    /\ program = NoProgram
    /\ program_copy = NoProgram
    /\ second_copy = NoProgram
    /\ snapshot = NoSnapshot
    /\ cpu = NoCpu
    /\ noun = 0 /\ verb = 0
    /\ pc = "load"
    /\ stdout = <<>>
    /\ panic = "none"
    /\ ntrials = 0
    /\ matched = {}
    /\ last = NoStep
    /\ executed = 0

LoadImage ==
    /\ pc = "load"
    /\ \E image \in Images :
          /\ heap' = (1 :> image)
          /\ input' = image
    /\ program_copy' = [raw_program |-> 1]
    /\ cpu' = CpuNew
    /\ pc' = "execute"
    /\ UNCHANGED <<second_copy, snapshot>>
    /\ UNCHANGED <<day_3_vars, day_4_vars>>
    /\ UNCHANGED <<overflow_checks, program, noun, verb, stdout, panic,
                   ntrials, matched, last, executed>>

NextCpu == LoadImage \/ Execute

SpecCpu == InitCpu /\ [][NextCpu]_vars

\* The program runs on: a step that can be taken is taken.
FairSpecCpu == SpecCpu /\ WF_vars(NextCpu)

(***************************************************************************)
(* impl Clone for IntcodeProgram: a new Vec, the cells pushed one by one.  *)
(***************************************************************************)
\* The Vec clone builds: the cells of the original, pushed in order.
PushAll(raw_program) == [i \in 1..Len(raw_program) |-> raw_program[i]]

\* The identifier of a buffer the allocator hands out: one not in use.
Alloc(h) == CHOOSE id \in 1..(Cardinality(DOMAIN h) + 1) : id \notin DOMAIN h

\* A clone that shares the storage of the original.
CloneShared(h, original) == [heap |-> h, program |-> original]

\* clone: the heap with the new Vec in it, and the new IntcodeProgram.
Clone(h, original) ==
    [heap    |-> h @@ (Alloc(h) :> PushAll(h[original.raw_program])),
     program |-> [raw_program |-> Alloc(h)]]

\* Dropping an IntcodeProgram frees its Vec.
Drop(h, dropped) == [id \in DOMAIN h \ {dropped.raw_program} |-> h[id]]

(***************************************************************************)
(* SpecClone: a template is cloned twice, and write_at is called on the    *)
(* template and on the clones in any order and at any address.             *)
(***************************************************************************)
MaxCloneLen == 2

WriteValues == {I64(0), Big}

Object(name) ==
    CASE name = "program"      -> program
      [] name = "program_copy" -> program_copy
      [] name = "second_copy"  -> second_copy

\* The programs that exist.
Live == {name \in {"program", "program_copy", "second_copy"} :
            Object(name) # NoProgram}

InitClone ==
    /\ overflow_checks \in BOOLEAN
    /\ Day3Idle /\ Day4Idle
    /\ \E template \in UNION {SeqsOfLen(WriteValues, n) : n \in 1..MaxCloneLen} :
          /\ heap = (1 :> template)
          /\ input = template
          /\ snapshot = [NoSnapshot EXCEPT !.program = template]
    /\ program = [raw_program |-> 1]
    /\ program_copy = NoProgram
    /\ second_copy = NoProgram
    /\ cpu = NoCpu
    /\ noun = 0 /\ verb = 0
    /\ pc = "clone_test"
    /\ stdout = <<>>
    /\ panic = "none"
    /\ ntrials = 0
    /\ matched = {}
    /\ last = NoStep
    /\ executed = 0

\* let program_copy = <a live program>.clone();
Test_Clone ==
    /\ pc = "clone_test"
    /\ program_copy = NoProgram
    /\ \E name \in Live :
          \E c \in {Clone(heap, Object(name))} :
              /\ heap' = c.heap
              /\ program_copy' = c.program
              /\ snapshot' = [snapshot EXCEPT
                                 !.program_copy = heap[Object(name).raw_program]]
    /\ UNCHANGED <<day_3_vars, day_4_vars>>
    /\ UNCHANGED <<overflow_checks, program, second_copy, cpu, noun, verb, pc,
                   stdout, panic, input, ntrials, matched, last, executed>>

\* let second_copy = <a live program>.clone();
Test_CloneAgain ==
    /\ pc = "clone_test"
    /\ program_copy # NoProgram
    /\ second_copy = NoProgram
    /\ \E name \in Live :
          \E c \in {Clone(heap, Object(name))} :
              /\ heap' = c.heap
              /\ second_copy' = c.program
              /\ snapshot' = [snapshot EXCEPT
                                 !.second_copy = heap[Object(name).raw_program]]
    /\ UNCHANGED <<day_3_vars, day_4_vars>>
    /\ UNCHANGED <<overflow_checks, program, program_copy, cpu, noun, verb, pc,
                   stdout, panic, input, ntrials, matched, last, executed>>

\* <a live program>.write_at(value, address); past the end it panics, which
\* ends the test.
Test_WriteAt ==
    /\ pc = "clone_test"
    /\ \E name \in Live, value \in WriteValues, address \in 0..MaxCloneLen :
          \E w \in {WriteAt(heap[Object(name).raw_program], value, address)} :
              /\ heap' = [heap EXCEPT ![Object(name).raw_program] = w.raw_program]
              /\ pc' = IF w.panicked THEN "aborted" ELSE "clone_test"
              /\ panic' = IF w.panicked THEN "bounds" ELSE "none"
              /\ snapshot' = IF w.panicked THEN snapshot
                             ELSE [snapshot EXCEPT ![name][address + 1] = value]
              /\ last' = [NoStep EXCEPT !.tag = name, !.writes = <<address>>]
    /\ UNCHANGED <<day_3_vars, day_4_vars>>
    /\ UNCHANGED <<overflow_checks, program, program_copy, second_copy, cpu,
                   noun, verb, stdout, input, ntrials, matched, executed>>

NextClone == Test_Clone \/ Test_CloneAgain \/ Test_WriteAt

SpecClone == InitClone /\ [][NextClone]_vars

(***************************************************************************)
(* main and try_with.                                                      *)
(***************************************************************************)
Target == 19690720

NounLimit == 100

VerbLimit == 100

\* The position of a pair in the order of the loops, and the number printed.
PairIndex(n, v) == 100 * n + v

AnswerLine(n, v) ==
    [line |-> "answer", noun |-> n, verb |-> v, answer |-> 100 * n + v]

NoAnswerLine == [line |-> "No answer!", noun |-> -1, verb |-> -1, answer |-> -1]

\* The loop variables after the pair (n, v): verb is the inner loop.
NextPairVerbOuter(n, v) ==
    IF n + 1 < NounLimit THEN <<n + 1, v>> ELSE <<0, v + 1>>

\* Loops that end after the first row of verbs.
NextPairStopsEarly(n, v) ==
    IF v + 1 < VerbLimit THEN <<n, v + 1>> ELSE <<NounLimit, 0>>

NextPair(n, v) ==
    IF v + 1 < VerbLimit THEN <<n, v + 1>> ELSE <<n + 1, 0>>

\* A memory of LongLen cells, all 0 but the given ones: long enough for
\* every noun and verb to be an address in it.
LongLen == NounLimit

Long(cells) == cells \o [i \in 1..(LongLen - Len(cells)) |-> I64(0)]

\* The templates main parses.  A template whose first opcode is neither 1
\* nor 2 runs all 10,000 trials alike, so only the named ones are kept.
NamedTemplates ==
    { <<I64(99), I64(0), I64(0)>>,
      <<I64(Target), I64(0), I64(0)>>,
      <<I64(1), I64(0), I64(0), I64(0)>>,
      <<I64(1), I64(0), I64(0), I64(0), I64(99)>>,
      <<I64(1), I64(0), I64(0), I64(0), I64(99), I64(Target - 1)>>,
      <<I64(1), I64(0), I64(0), I64(0), I64(99), I64(Target - 5)>>,
      <<I64(1), I64(0), I64(0), I64(3), I64(2), I64(8), I64(8), I64(0), Big>>,
      \* cell 0 = cell[noun] + cell[verb]: cells 5 and 10 add up to the target
      [Long(<<I64(1), I64(0), I64(0), I64(0), I64(99), I64(5)>>)
           EXCEPT ![11] = I64(Target - 5)],
      \* cell 0 = cell[noun] + cell[verb]: never the target; (50, 50) is 2^63
      [Long(<<I64(1), I64(0), I64(0), I64(0), I64(99)>>) EXCEPT ![51] = Big] }

MaxTemplateLen == 3

Templates ==
    {t \in UNION {SeqsOfLen(CellValues, n) : n \in 1..MaxTemplateLen} :
        Len(t) < 3 \/ t[1] \in {I64(1), I64(2)}}
    \cup NamedTemplates

Init ==
    /\ overflow_checks \in BOOLEAN
    /\ Day3Idle /\ Day4Idle
    /\ heap = <<>>
    /\ input = <<>>
    /\ program = NoProgram
    /\ program_copy = NoProgram
    /\ second_copy = NoProgram
    /\ snapshot = NoSnapshot
    /\ cpu = NoCpu
    /\ noun = 0 /\ verb = 0
    /\ pc = "main"
    /\ stdout = <<>>
    /\ panic = "none"
    /\ ntrials = 0
    /\ matched = {}
    /\ last = NoStep
    /\ executed = 0

\* main: stdin is read and parsed into the template.
Main_ReadProgram ==
    /\ pc = "main"
    /\ \E template \in Templates :
          /\ heap' = (1 :> template)
          /\ input' = template
    /\ program' = [raw_program |-> 1]
    /\ noun' = 0 /\ verb' = 0
    /\ pc' = "loop"
    /\ UNCHANGED <<second_copy, snapshot>>
    /\ UNCHANGED <<day_3_vars, day_4_vars>>
    /\ UNCHANGED <<overflow_checks, program_copy, cpu, stdout, panic, ntrials,
                   matched, last, executed>>

\* main: the loops have a next pair, and try_with is called with it.
Main_TryNext ==
    /\ pc = "loop"
    /\ noun < NounLimit
    /\ pc' = "clone"
    /\ ntrials' = ntrials + 1
    /\ UNCHANGED <<second_copy, snapshot>>
    /\ UNCHANGED <<day_3_vars, day_4_vars>>
    /\ UNCHANGED <<overflow_checks, heap, program, program_copy, cpu, noun, verb,
                   stdout, panic, input, matched, last, executed>>

\* main: the loops are exhausted.
Main_NoAnswer ==
    /\ pc = "loop"
    /\ noun >= NounLimit
    /\ stdout' = Append(stdout, NoAnswerLine)
    /\ pc' = "exit"
    /\ UNCHANGED <<second_copy, snapshot>>
    /\ UNCHANGED <<day_3_vars, day_4_vars>>
    /\ UNCHANGED <<overflow_checks, heap, program, program_copy, cpu, noun, verb,
                   panic, input, ntrials, matched, last, executed>>

\* try_with: let mut program_copy = program.clone();
TryWith_Clone ==
    /\ pc = "clone"
    /\ \E c \in {Clone(heap, program)} :
          /\ heap' = c.heap
          /\ program_copy' = c.program
    /\ pc' = "restore"
    /\ UNCHANGED <<second_copy, snapshot>>
    /\ UNCHANGED <<day_3_vars, day_4_vars>>
    /\ UNCHANGED <<overflow_checks, program, cpu, noun, verb, stdout, panic,
                   input, ntrials, matched, last, executed>>

\* A restore_gravity_assist that skips a write past the end and goes on.
RestoreGravityAssistUnchecked(n, v, raw_program) ==
    [panicked    |-> FALSE,
     raw_program |-> WriteAt(WriteAt(raw_program, I64(n), 1).raw_program,
                             I64(v), 2).raw_program]

\* restore_gravity_assist: the two write_at calls; the first to panic ends
\* the process, what the other wrote left in the copy.
RestoreGravityAssist(n, v, raw_program) ==
    Eager(WriteAt(raw_program, I64(n), 1), LAMBDA first :
        IF first.panicked THEN first
        ELSE WriteAt(first.raw_program, I64(v), 2))

TryWith_Restore ==
    /\ pc = "restore"
    /\ \E w \in {RestoreGravityAssist(noun, verb, Memory)} :
          /\ heap' = [heap EXCEPT ![program_copy.raw_program] = w.raw_program]
          /\ pc' = IF w.panicked THEN "aborted" ELSE "cpu_new"
          /\ panic' = IF w.panicked THEN "bounds" ELSE "none"
    /\ UNCHANGED <<second_copy, snapshot>>
    /\ UNCHANGED <<day_3_vars, day_4_vars>>
    /\ UNCHANGED <<overflow_checks, program, program_copy, cpu, noun, verb,
                   stdout, input, ntrials, matched, last, executed>>

\* try_with: let mut cpu = Cpu::new();
TryWith_CpuNew ==
    /\ pc = "cpu_new"
    /\ cpu' = CpuNew
    /\ executed' = 0
    /\ last' = NoStep
    /\ pc' = "execute"
    /\ UNCHANGED <<second_copy, snapshot>>
    /\ UNCHANGED <<day_3_vars, day_4_vars>>
    /\ UNCHANGED <<overflow_checks, heap, program, program_copy, noun, verb,
                   stdout, panic, input, ntrials, matched>>

\* try_with returns program_copy.read_at(0) == 19690720, its locals are
\* dropped, and main prints the pair and returns, or goes on to the next.
TryWith_Return ==
    /\ pc = "compare"
    /\ IF ~InBounds(Memory, 0)
       THEN /\ pc' = "aborted" /\ panic' = "bounds"
            /\ UNCHANGED <<heap, program_copy, cpu, noun, verb, stdout, matched>>
       ELSE /\ panic' = "none"
            /\ heap' = Drop(heap, program_copy)
            /\ program_copy' = NoProgram
            /\ cpu' = NoCpu
            /\ IF ReadAt(Memory, 0) = I64(Target)
               THEN /\ stdout' = Append(stdout, AnswerLine(noun, verb))
                    /\ matched' = matched \cup {PairIndex(noun, verb)}
                    /\ pc' = "exit"
                    /\ UNCHANGED <<noun, verb>>
               ELSE /\ noun' = NextPair(noun, verb)[1]
                    /\ verb' = NextPair(noun, verb)[2]
                    /\ pc' = "loop"
                    /\ UNCHANGED <<stdout, matched>>
    /\ UNCHANGED <<second_copy, snapshot>>
    /\ UNCHANGED <<day_3_vars, day_4_vars>>
    /\ UNCHANGED <<overflow_checks, program, input, ntrials, last, executed>>

Next ==
    \/ Main_ReadProgram
    \/ Main_TryNext
    \/ Main_NoAnswer
    \/ TryWith_Clone
    \/ TryWith_Restore
    \/ TryWith_CpuNew
    \/ Execute
    \/ TryWith_Return

Spec == Init /\ [][Next]_vars

\* The process runs on: a statement that can be executed is executed.
FairSpec == Spec /\ WF_vars(Next)

(***************************************************************************)
(* src/day_4/src/main.rs: SillyNumber.  number is a u64; the numbers of    *)
(* the model have at most MaxDigits decimal digits and are far from its    *)
(* range.  digits[1] is the digit at pos 0, the least significant one.     *)
(***************************************************************************)
DigitCount == 6

AssertedPos == 7

InitialLastDigit == 66

RECURSIVE Pow10(_)
Pow10(pos) == IF pos = 0 THEN 1 ELSE 10 * Pow10(pos - 1)

\* get_digit_at: number / 10^pos % 10
GetDigitAt(number, pos) == (number \div Pow10(pos)) % 10

\* make_digits: the digits at pos 0..5, and whether the assertion on the
\* digit at pos 7 failed.
MakeDigits(number) ==
    [panicked |-> GetDigitAt(number, AssertedPos) # 0,
     digits   |-> [pos \in 1..DigitCount |-> GetDigitAt(number, pos - 1)]]

\* A test that takes any run of two or more for a pair.
IsPairOrLonger(length_of_run) == length_of_run >= 2

\* length_of_run == 2
IsPair(length_of_run) == length_of_run = 2

\* The loop of is_valid_password from the digit at index pos on, with the
\* values of its locals, and the return after it.
RECURSIVE ValidFrom(_, _, _, _, _)
ValidFrom(digits, pos, last_digit, pair_found, length_of_run) ==
    IF pos > Len(digits)
    THEN pair_found \/ IsPair(length_of_run)
    ELSE IF digits[pos] > last_digit
    THEN FALSE
    ELSE IF digits[pos] = last_digit
    THEN ValidFrom(digits, pos + 1, digits[pos], pair_found, length_of_run + 1)
    ELSE ValidFrom(digits, pos + 1, digits[pos],
                   IF ~pair_found THEN IsPair(length_of_run) ELSE pair_found, 1)

IsValidPassword(digits) == ValidFrom(digits, 1, InitialLastDigit, FALSE, 0)

\* The numbers a SillyNumber is made of: those of at most MaxDigits digits,
\* none above MaxDigit, the numbers of the tests and the range of main.
MaxDigits == 8

MaxDigit == 2

RECURSIVE NumbersOfDigits(_)
NumbersOfDigits(n) ==
    IF n = 0 THEN {0}
    ELSE {10 * m + d : m \in NumbersOfDigits(n - 1), d \in 0..MaxDigit}

TestNumbers ==
    {112233, 125599, 115699, 999999, 123444, 222559, 111199, 112222, 221555,
     197487, 673251}

PasswordInputs == NumbersOfDigits(MaxDigits) \cup TestNumbers

\* The interpreter is not running.
Day2Idle ==
    /\ overflow_checks \in BOOLEAN
    /\ heap = <<>>
    /\ input = <<>>
    /\ program = NoProgram
    /\ program_copy = NoProgram
    /\ second_copy = NoProgram
    /\ snapshot = NoSnapshot
    /\ cpu = NoCpu
    /\ noun = 0 /\ verb = 0
    /\ stdout = <<>>
    /\ ntrials = 0
    /\ matched = {}
    /\ last = NoStep
    /\ executed = 0

InitPassword ==
    /\ Day2Idle /\ Day3Idle /\ Day4Idle
    /\ pc = "new"
    /\ panic = "none"

\* SillyNumber::new(number) is called.
SillyNumber_New ==
    /\ pc = "new"
    /\ \E number \in PasswordInputs :
          silly_number' = [number |-> number, digits |-> <<>>]
    /\ pc' = "make_digits"
    /\ UNCHANGED <<day_2_vars, day_3_vars, panic, is_valid_password>>

\* new: let digits = Self::make_digits(number); the assertion panics, or
\* the SillyNumber is made.
SillyNumber_MakeDigits ==
    /\ pc = "make_digits"
    /\ \E made \in {MakeDigits(silly_number.number)} :
          IF made.panicked
          THEN /\ pc' = "aborted" /\ panic' = "assert"
               /\ UNCHANGED silly_number
          ELSE /\ pc' = "made" /\ panic' = "none"
               /\ silly_number' = [silly_number EXCEPT !.digits = made.digits]
    /\ UNCHANGED <<day_2_vars, day_3_vars, is_valid_password>>

\* silly_number.is_valid_password()
SillyNumber_IsValidPassword ==
    /\ pc = "made"
    /\ is_valid_password' = <<IsValidPassword(silly_number.digits)>>
    /\ pc' = "checked"
    /\ UNCHANGED <<day_2_vars, day_3_vars, panic, silly_number>>

NextPassword ==
    \/ SillyNumber_New
    \/ SillyNumber_MakeDigits
    \/ SillyNumber_IsValidPassword

SpecPassword == InitPassword /\ [][NextPassword]_vars

(***************************************************************************)
(* src/day_3/src/main.rs: Point, Interval and Edge.  Coordinates and       *)
(* magnitudes are i64; those of the model are small.  An Interval is       *)
(* [lower, upper), and Interval::new asserts lower < upper.                *)
(***************************************************************************)
\* Point::colinear
PointColinear(p, r) == p.x = r.x \/ p.y = r.y

\* Point::distance_from
DistanceFrom(p, other) ==
    (IF p.x - other.x >= 0 THEN p.x - other.x ELSE other.x - p.x)
  + (IF p.y - other.y >= 0 THEN p.y - other.y ELSE other.y - p.y)

\* Interval::new: panicked when the assertion fails.
IntervalNew(lower, upper) ==
    [panicked |-> ~(lower < upper), lower |-> lower, upper |-> upper]

\* Interval::contains
Contains(interval, value) == interval.lower <= value /\ value < interval.upper

\* Interval::overlaps
Overlaps(interval, other) ==
    Contains(interval, other.lower) \/ Contains(other, interval.lower)

\* Edge::get_endpoint
GetEndpoint(e) ==
    CASE e.direction = "Up"    -> [x |-> e.origin.x, y |-> e.origin.y + e.magnitude]
      [] e.direction = "Down"  -> [x |-> e.origin.x, y |-> e.origin.y - e.magnitude]
      [] e.direction = "Left"  -> [x |-> e.origin.x - e.magnitude, y |-> e.origin.y]
      [] e.direction = "Right" -> [x |-> e.origin.x + e.magnitude, y |-> e.origin.y]

\* Edge::as_interval
AsInterval(e) ==
    CASE e.direction = "Up"    -> IntervalNew(e.origin.y, GetEndpoint(e).y + 1)
      [] e.direction = "Down"  -> IntervalNew(GetEndpoint(e).y - 1, e.origin.y)
      [] e.direction = "Left"  -> IntervalNew(GetEndpoint(e).x - 1, e.origin.x)
      [] e.direction = "Right" -> IntervalNew(e.origin.x, GetEndpoint(e).x + 1)

Vertical(e) == e.direction \in {"Up", "Down"}

\* Edge::parallel
Parallel(e, other) == Vertical(e) = Vertical(other)

\* Edge::colinear
EdgeColinear(e, other) == PointColinear(e.origin, other.origin)

\* Edge::is_overlapping: the value returned, or panicked when one of the
\* two as_interval calls fails its assertion.
IsOverlapping(e, other) ==
    IF ~(EdgeColinear(e, other) /\ Parallel(e, other))
    THEN [panicked |-> FALSE, value |-> FALSE]
    ELSE IF AsInterval(e).panicked \/ AsInterval(other).panicked
    THEN [panicked |-> TRUE, value |-> FALSE]
    ELSE [panicked |-> FALSE, value |-> Overlaps(AsInterval(e), AsInterval(other))]

\* Edge::is_crossing: the value returned, or panicked likewise.
IsCrossing(e, other) ==
    IF Parallel(e, other)
    THEN [panicked |-> FALSE, value |-> FALSE]
    ELSE IF AsInterval(e).panicked \/ AsInterval(other).panicked
    THEN [panicked |-> TRUE, value |-> FALSE]
    ELSE IF Vertical(e)
    THEN [panicked |-> FALSE,
          value |-> /\ Contains(AsInterval(other), e.origin.x)
                    /\ Contains(AsInterval(e), other.origin.y)]
    ELSE [panicked |-> FALSE,
          value |-> /\ Contains(AsInterval(other), e.origin.y)
                    /\ Contains(AsInterval(e), other.origin.x)]

\* Edge::get_intersection: <<>> for None, <<point>> for Some(point); called
\* where is_crossing does not panic.
GetIntersection(e, other) ==
    IF ~IsCrossing(e, other).value THEN <<>>
    ELSE IF Vertical(e)
    THEN <<[x |-> e.origin.x, y |-> other.origin.y]>>
    ELSE <<[x |-> other.origin.x, y |-> e.origin.y]>>

(***************************************************************************)
(* SpecEdge: the tests of is_crossing, on any two edges: two edges are     *)
(* made and is_crossing is called on them both ways.                       *)
(***************************************************************************)
MaxCoordinate == 1

MaxMagnitude == 2

Directions == {"Up", "Down", "Left", "Right"}

\* A magnitude parses as any i64: -1 stands for the negative ones.
Magnitudes == {-1} \cup 1..MaxMagnitude

Edges ==
    [direction : Directions,
     magnitude : Magnitudes,
     origin    : [x : -MaxCoordinate..MaxCoordinate,
                  y : -MaxCoordinate..MaxCoordinate]]

InitEdge ==
    /\ Day2Idle /\ Day3Idle /\ Day4Idle
    /\ pc = "test"
    /\ panic = "none"

\* let base_edge = Edge {..}; let crossing_edge = Edge {..};
Test_MakeEdges ==
    /\ pc = "test"
    /\ base_edge' \in Edges
    /\ crossing_edge' \in Edges
    /\ pc' = "is_crossing"
    /\ UNCHANGED <<day_2_vars, day_4_vars, panic, crossed, wire_0, wire_1,
                   get_intersections>>

\* crossing_edge.is_crossing(&base_edge); base_edge.is_crossing(&crossing_edge)
Test_IsCrossing ==
    /\ pc = "is_crossing"
    /\ \E first \in {IsCrossing(crossing_edge, base_edge)},
          second \in {IsCrossing(base_edge, crossing_edge)} :
          IF first.panicked \/ second.panicked
          THEN /\ pc' = "aborted" /\ panic' = "assert"
               /\ UNCHANGED crossed
          ELSE /\ pc' = "tested" /\ panic' = "none"
               /\ crossed' = <<first.value, second.value>>
    /\ UNCHANGED <<day_2_vars, day_4_vars, base_edge, crossing_edge, wire_0,
                   wire_1, get_intersections>>

NextEdge == Test_MakeEdges \/ Test_IsCrossing

SpecEdge == InitEdge /\ [][NextEdge]_vars

(***************************************************************************)
(* SpecWire: two wires are parsed from their lines (Wire::from_string) and *)
(* wire_0.get_intersections(wire_1) runs, one pair of edges per step.      *)
(***************************************************************************)
MaxEdges == 1

Moves == [direction : Directions, magnitude : 1..MaxMagnitude]

Move(direction, magnitude) == [direction |-> direction, magnitude |-> magnitude]

\* The lines of the model: every line of at most MaxEdges moves, the two
\* wires of the puzzle's first example, and lines of parallel runs.
Lines ==
    UNION {SeqsOfLen(Moves, n) : n \in 1..MaxEdges}
    \cup { <<Move("Right", 8), Move("Up", 5), Move("Left", 5), Move("Down", 3)>>,
           <<Move("Up", 7), Move("Right", 6), Move("Down", 4), Move("Left", 4)>>,
           <<Move("Right", 2)>>,
           <<Move("Up", 2), Move("Right", 1)>>,
           <<Move("Up", 1), Move("Right", 2), Move("Up", 1)>> }

\* from_string: each edge starts where the one before it ends, the first at
\* (0, 0).
RECURSIVE EdgesFrom(_, _, _)
EdgesFrom(line, i, current_position) ==
    IF i > Len(line) THEN <<>>
    ELSE LET edge == [direction |-> line[i].direction,
                      magnitude |-> line[i].magnitude,
                      origin    |-> current_position]
         IN  <<edge>> \o EdgesFrom(line, i + 1, GetEndpoint(edge))

FromString(line) == EdgesFrom(line, 1, [x |-> 0, y |-> 0])

InitWire ==
    /\ Day2Idle /\ Day3Idle /\ Day4Idle
    /\ pc = "read_wires"
    /\ panic = "none"

\* main: the two lines are read and parsed.
Main_ReadWires ==
    /\ pc = "read_wires"
    /\ \E line_0 \in Lines, line_1 \in Lines :
          /\ wire_0' = FromString(line_0)
          /\ wire_1' = FromString(line_1)
    /\ pc' = "call"
    /\ UNCHANGED <<day_2_vars, day_4_vars, panic, base_edge, crossing_edge,
                   crossed, get_intersections>>

\* get_intersections is entered: its locals before the loops.
GetIntersections_Enter ==
    /\ pc = "call"
    /\ get_intersections' =
          [index |-> 1, other_index |-> 1, my_distance |-> 0,
           other_distance |-> 0, result |-> <<>>]
    /\ pc' = "get_intersections"
    /\ UNCHANGED <<day_2_vars, day_4_vars, panic, base_edge, crossing_edge,
                   crossed, wire_0, wire_1>>

\* The body of the inner loop for one pair, on the locals f: the locals
\* after it, or the panic of an assertion.
PairStep(f, edge, other_edge) ==
    IF IsOverlapping(edge, other_edge).panicked
    THEN [panic |-> "interval", frame |-> f]
    ELSE IF IsOverlapping(edge, other_edge).value
    THEN [panic |-> "overlapping", frame |-> f]
    ELSE IF IsCrossing(edge, other_edge).panicked
    THEN [panic |-> "interval", frame |-> f]
    ELSE LET found == GetIntersection(edge, other_edge)
             pushed ==
                 IF found = <<>> THEN f.result
                 ELSE Append(f.result,
                        [distance |-> DistanceFrom(found[1], edge.origin)
                                        + f.my_distance
                                        + DistanceFrom(found[1], other_edge.origin)
                                        + f.other_distance,
                         point |-> found[1]])
         IN  [panic |-> "none",
              frame |-> [f EXCEPT !.result = pushed,
                                  !.other_distance = @ + other_edge.magnitude]]

\* The loop variables after a pair: the next edge of other, or the next
\* edge of self with other from its start.
NextEdges(f, edge, other_len) ==
    IF f.other_index < other_len
    THEN [f EXCEPT !.other_index = @ + 1]
    ELSE [f EXCEPT !.index = @ + 1, !.other_index = 1,
                   !.other_distance = 0, !.my_distance = @ + edge.magnitude]

\* One pair of edges: assert!(!edge.is_overlapping(&other_edge)), then the
\* match on get_intersection, then the loops move on.
GetIntersections_Pair ==
    /\ pc = "get_intersections"
    /\ get_intersections.index <= Len(wire_0)
    /\ \E s \in {PairStep(get_intersections,
                          wire_0[get_intersections.index],
                          wire_1[get_intersections.other_index])} :
          IF s.panic # "none"
          THEN /\ pc' = "aborted" /\ panic' = s.panic
               /\ UNCHANGED get_intersections
          ELSE /\ pc' = "get_intersections" /\ panic' = "none"
               /\ get_intersections' =
                     NextEdges(s.frame, wire_0[get_intersections.index],
                               Len(wire_1))
    /\ UNCHANGED <<day_2_vars, day_4_vars, base_edge, crossing_edge, crossed,
                   wire_0, wire_1>>

\* The outer loop is exhausted: result is returned.
GetIntersections_Return ==
    /\ pc = "get_intersections"
    /\ get_intersections.index > Len(wire_0)
    /\ pc' = "returned"
    /\ UNCHANGED <<day_2_vars, day_3_vars, day_4_vars, panic>>

NextWire ==
    \/ Main_ReadWires
    \/ GetIntersections_Enter
    \/ GetIntersections_Pair
    \/ GetIntersections_Return

SpecWire == InitWire /\ [][NextWire]_vars

(***************************************************************************)
(* Properties of Cpu::execute.  In a state with pc = "execute" the loop is *)
(* about to fetch at Ptr; the names below read that instruction from the   *)
(* cells themselves.                                                       *)
(***************************************************************************)
Ptr == cpu.instruction_ptr

OpcodeIs(n) == InBounds(Memory, Ptr) /\ ReadAt(Memory, Ptr) = I64(n)

OperandCellsInBounds == InBounds(Memory, Ptr + 3)

Operand(k) == AsAddress(ReadAt(Memory, Ptr + k))

OperandsInBounds ==
    OperandCellsInBounds /\ \A k \in 1..3 : InBounds(Memory, Operand(k))

\* The mathematical result of the instruction at Ptr, in 128 bits.
WideResult(n) ==
    IF n = 1
    THEN WideAdd(ReadAt(Memory, Operand(1)), ReadAt(Memory, Operand(2)))
    ELSE WideMul(ReadAt(Memory, Operand(1)), ReadAt(Memory, Operand(2)))

Continues == pc' = "execute" /\ cpu'.instruction_ptr = Ptr + 4

\* C1 as stated: with opcode 1 (resp. 2) at the pointer and the three
\* operands in-bounds addresses, one step leaves mem[d] equal to
\* mem[a] + mem[b] (resp. mem[a] * mem[b]), the operands dereferenced, and
\* execution continues at p+4.
C1_AsStated ==
    [][\A n \in {1, 2} :
         (pc = "execute" /\ OpcodeIs(n) /\ OperandsInBounds)
         => /\ SignExtend(ReadAt(Memory', Operand(3))) = WideResult(n)
            /\ Continues]_vars

\* C1, amended: the same whenever the sum (product) is in the i64 range;
\* when it is not, a build with overflow checks panics with the memory
\* unchanged and a build without them stores the result modulo 2^64 and
\* continues at p+4.
C1_ArithmeticStep ==
    [][\A n \in {1, 2} :
         (pc = "execute" /\ OpcodeIs(n) /\ OperandsInBounds)
         => IF FitsValue(WideResult(n))
            THEN /\ SignExtend(ReadAt(Memory', Operand(3))) = WideResult(n)
                 /\ Continues
            ELSE IF overflow_checks
            THEN pc' = "aborted" /\ panic' = "overflow" /\ Memory' = Memory
            ELSE /\ ReadAt(Memory', Operand(3))
                       = SubSeq(WideResult(n), 1, ValueBytes)
                 /\ Continues]_vars

\* The multiply of [2,4,4,5,99,0] has stored 99 * 99 in cell 5.
C1_Witness ==
    /\ input = FromVec(<<2, 4, 4, 5, 99, 0>>)
    /\ last.tag = "Mult" /\ last.result = "continue"
    /\ pc = "execute" /\ Ptr = 4
    /\ ReadAt(Memory, 5) = I64(9801)

\* C2 as stated: when execute stops on a halt instruction at address h,
\* the instruction pointer equals h.
C2_AsStated ==
    [][(pc = "execute" /\ pc' = "compare") => cpu'.instruction_ptr = Ptr]_vars

\* C2, amended: when execute stops on a halt instruction at address h, the
\* instruction pointer equals h + 4 (get_next_instruction advances it past
\* every instruction it fetches, a halt included); for [1,0,0,0,99] the
\* pointer ends at 8.
C2_PointerAfterHalt ==
    [][(pc = "execute" /\ pc' = "compare")
         => /\ cpu'.instruction_ptr = Ptr + 4
            /\ last'.tag = "Halt" /\ last'.at = Ptr
            /\ (input = FromVec(<<1, 0, 0, 0, 99>>) => cpu'.instruction_ptr = 8)
      ]_vars

\* [1,0,0,0,99] has halted on the 99 at address 4.
C2_Witness ==
    /\ input = FromVec(<<1, 0, 0, 0, 99>>)
    /\ pc = "compare" /\ last.tag = "Halt" /\ last.at = 4
    /\ ReadAt(Memory, 0) = I64(2)

\* What a halting step does: execute returns without a panic, having read
\* the opcode cell only and written nothing, the memory as it was.
HaltsQuietly ==
    /\ pc' = "compare" /\ panic' = "none"
    /\ Memory' = Memory
    /\ last'.reads = <<Ptr>> /\ last'.writes = <<>>

\* C3: a halt instruction (opcode 99) at pointer p reads only the cell at p
\* and mutates no cell, and succeeds without a bounds failure even when
\* p+1, p+2 or p+3 are past the end of the memory.
C3_HaltReadsOneCell ==
    [][(pc = "execute" /\ OpcodeIs(99)) => HaltsQuietly]_vars

\* A 99 in the last cell of the memory has halted the Cpu.
C3_Witness ==
    /\ pc = "compare" /\ panic = "none"
    /\ last.tag = "Halt"
    /\ last.at = Len(Memory) - 1
    /\ ReadAt(Memory, last.at) = I64(99)

BoundsFailure == pc' = "aborted" /\ panic' = "bounds" /\ Memory' = Memory

ArithmeticOpcode == OpcodeIs(1) \/ OpcodeIs(2)

\* Whether the arithmetic of the instruction at Ptr panics before its
\* write_at is called (the sum or product is the argument of the call).
ArithmeticPanics ==
    overflow_checks /\ ~FitsValue(WideResult(IF OpcodeIs(1) THEN 1 ELSE 2))

\* C8: every read or write the VM attempts at an address outside
\* [0, length) is a bounds failure that leaves the memory as it was before
\* the failing instruction started: the opcode fetch at a pointer past the
\* end, the fetch of operand cells p+1..p+3 of an Add/Mult past the end,
\* the dereference of a source operand that is negative or >= length, and
\* the write to a destination operand that is negative or >= length.
C8_OutOfBoundsPanics ==
    [][pc = "execute" =>
         /\ (\/ \E i \in DOMAIN last'.reads : ~InBounds(Memory, last'.reads[i])
             \/ \E i \in DOMAIN last'.writes : ~InBounds(Memory, last'.writes[i]))
            => BoundsFailure
         /\ ~InBounds(Memory, Ptr) => BoundsFailure
         /\ (ArithmeticOpcode /\ ~OperandCellsInBounds) => BoundsFailure
         /\ (/\ ArithmeticOpcode /\ OperandCellsInBounds
             /\ \E k \in 1..2 : ~InBounds(Memory, Operand(k)))
            => BoundsFailure
         /\ (/\ ArithmeticOpcode /\ OperandCellsInBounds
             /\ \A k \in 1..2 : InBounds(Memory, Operand(k))
             /\ ~InBounds(Memory, Operand(3))
             /\ ~ArithmeticPanics)
            => (BoundsFailure /\ last'.writes = <<Operand(3)>>)]_vars

\* An Add or Mult with a negative destination operand has panicked on its
\* write.
C8_Witness ==
    /\ pc = "aborted" /\ panic = "bounds"
    /\ last.tag \in {"Add", "Mult"}
    /\ last.writes = <<HugeAddress>>
    /\ IsNegative(ReadAt(Memory, last.at + 3))
    /\ Memory = input

\* How an execution may have ended, as C10 states it: Halted, or in a
\* bounds failure.
EndedAsStated ==
    \/ pc = "compare" /\ panic = "none"
    \/ pc = "aborted" /\ panic = "bounds"

\* At most ceil(L/4) Add/Mult instructions have been executed.
WithinInstructionBound ==
    pc # "load" => 4 * executed <= Len(Memory) + 3

PointerAdvancesByFour ==
    [][(pc = "execute" /\ pc' = "execute") => cpu'.instruction_ptr = Ptr + 4]_vars

\* C10 as stated: execute started with pointer 0 terminates, Halted or in a
\* bounds failure, the pointer increasing by 4 per instruction; at most
\* ceil(L/4) Add/Mult instructions are executed, and an execution that
\* fetches no halting opcode ends in a bounds failure.
C10_AsStated ==
    /\ <>(pc \in {"compare", "aborted"})
    /\ [](pc \in {"compare", "aborted"} => EndedAsStated)
    /\ [](pc = "aborted" => panic = "bounds")
    /\ []WithinInstructionBound
    /\ PointerAdvancesByFour

\* C10, amended: execute started with pointer 0 terminates, because the
\* pointer increases by 4 per instruction: it ends Halted, in a bounds
\* failure or, in a build with overflow checks, in an arithmetic overflow
\* panic; at most ceil(L/4) Add/Mult instructions are executed, and an
\* execution that fetches no halting opcode ends in one of the two panics,
\* never in a loop.
C10_Terminates ==
    /\ <>(pc \in {"compare", "aborted"})
    /\ [](pc \in {"compare", "aborted"} =>
            \/ EndedAsStated
            \/ pc = "aborted" /\ overflow_checks /\ panic = "overflow")
    /\ [](pc = "compare" => last.tag = "Halt")
    /\ []WithinInstructionBound
    /\ PointerAdvancesByFour

\* A program without a halting opcode has run off the end of its memory
\* after executing an instruction.
C10_Witness ==
    /\ pc = "aborted" /\ panic = "bounds"
    /\ executed >= 1
    /\ last.tag = "Panic" /\ last.at = Len(Memory) /\ last.reads = <<Ptr>>

(***************************************************************************)
(* Properties of clone.                                                    *)
(***************************************************************************)
\* C5: clone returns a program with the same length and the same value in
\* every cell as the original, in storage of its own: after any sequence of
\* write_at calls on the template or on either of two clones, every cell of
\* the others holds the value it had when the clone was made.
C5_CloneIndependent ==
    /\ \A name \in Live : heap[Object(name).raw_program] = snapshot[name]
    /\ \A a, b \in Live : a # b => Object(a).raw_program # Object(b).raw_program
    /\ \A name \in Live : Len(heap[Object(name).raw_program]) = Len(input)

\* The template and its two clones live, each written since the clones
\* were made so that no two of them hold the same cells; the last write
\* was to the first clone.
C5_Witness ==
    /\ Live = {"program", "program_copy", "second_copy"}
    /\ snapshot.program # input
    /\ snapshot.program_copy # snapshot.program
    /\ snapshot.second_copy # snapshot.program
    /\ snapshot.second_copy # snapshot.program_copy
    /\ last.tag = "program_copy"
    /\ heap[program.raw_program] = snapshot.program

(***************************************************************************)
(* Properties of the search.                                               *)
(***************************************************************************)
InTrial == pc \in {"clone", "restore", "cpu_new", "execute", "compare"}

\* try_with is called for the pairs in the order noun outer, verb inner,
\* once each: the number of calls made is the position of the pair.
TrialsInOrder ==
    /\ pc = "loop" => ntrials = PairIndex(noun, verb)
    /\ InTrial => /\ ntrials = 100 * noun + verb + 1
                  /\ noun \in 0..99 /\ verb \in 0..99

Terminated == pc \in {"exit", "aborted"}

\* C6: the search tries the pairs in the order noun = 0..99 (outer),
\* verb = 0..99 (inner) and stops at the first match: when it reports a pair
\* (n, v), the trial of (n, v) ended with cell 0 equal to the target, no
\* earlier pair did, no later pair is run, and the answer is 100*n + v.
C6_FirstMatchReported ==
    /\ []TrialsInOrder
    /\ []((stdout # <<>> /\ stdout[1].line = "answer") => matched # {})
    /\ [](matched # {} =>
             /\ pc = "exit"
             /\ matched = {100 * noun + verb}
             /\ ntrials = 100 * noun + verb + 1
             /\ Len(stdout) = 1
             /\ stdout[1].line = "answer"
             /\ stdout[1].noun = noun /\ stdout[1].verb = verb
             /\ stdout[1].answer = 100 * noun + verb)
    /\ [][pc = "compare" =>
            IF ReadAt(Memory, 0) = I64(Target)
            THEN pc' = "exit" /\ matched' = {100 * noun + verb}
            ELSE pc' = "loop" /\ matched' = {} /\ stdout' = <<>>]_vars
    /\ [][pc # "exit"]_vars

\* A template of 100 cells whose first match is (5, 10), after 510 pairs
\* that did not match: the answer 510 is printed.
C6_Witness ==
    /\ pc = "exit"
    /\ matched = {510}
    /\ ntrials = 511
    /\ stdout = <<[line |-> "answer", noun |-> 5, verb |-> 10, answer |-> 510]>>

\* C7 as stated: when no pair yields the target at address 0 and no trial
\* hits a bounds failure, the search terminates after running every pair
\* once and reports "no answer"; it does not hang, crash or report a pair.
C7_AsStated ==
    /\ <>Terminated
    /\ []TrialsInOrder
    /\ [](pc = "aborted" => panic = "bounds")
    /\ []((pc = "exit" /\ matched = {}) =>
             stdout = <<NoAnswerLine>> /\ ntrials = NounLimit * VerbLimit)

\* C7, amended: when no pair yields the target at address 0 and no trial
\* hits a bounds failure or, in a build with overflow checks, an arithmetic
\* overflow, the search terminates after running every pair once and
\* reports "no answer"; an overflow in such a build ends the search in a
\* panic, as a bounds failure does.
C7_Exhaustion ==
    /\ <>Terminated
    /\ []TrialsInOrder
    /\ [](pc = "aborted" =>
             \/ panic = "bounds"
             \/ panic = "overflow" /\ overflow_checks)
    /\ []((pc = "exit" /\ matched = {}) =>
             stdout = <<NoAnswerLine>> /\ ntrials = NounLimit * VerbLimit)

\* A template of 100 cells, every trial of which executed its Add and
\* halted without a match, in a build without overflow checks: "No answer!"
\* is printed after 10,000 trials.
C7_Witness ==
    /\ pc = "exit"
    /\ ~overflow_checks
    /\ Len(input) = LongLen
    /\ matched = {}
    /\ ntrials = 10000
    /\ executed = 1
    /\ stdout = <<NoAnswerLine>>

\* C9: a bounds failure in a trial the search runs (in the patch writes to
\* addresses 1 and 2, during execution, or in the final read of address 0)
\* ends the search in a fault at that trial: it is not taken for a pair
\* that does not match, so neither "no answer" nor a later pair is reported.
C9_BoundsFailureEndsSearch ==
    /\ [](panic = "bounds" =>
             /\ pc = "aborted"
             /\ stdout = <<>> /\ matched = {}
             /\ ntrials = 100 * noun + verb + 1)
    /\ [][pc # "aborted"]_vars
    /\ [][(pc = "restore" /\ ~(InBounds(Memory, 1) /\ InBounds(Memory, 2)))
            => (pc' = "aborted" /\ panic' = "bounds")]_vars
    /\ [][(/\ pc = "execute"
           /\ \/ \E i \in DOMAIN last'.reads : ~InBounds(Memory, last'.reads[i])
              \/ \E i \in DOMAIN last'.writes : ~InBounds(Memory, last'.writes[i]))
            => (pc' = "aborted" /\ panic' = "bounds")]_vars
    /\ [][(pc = "compare" /\ ~InBounds(Memory, 0))
            => (pc' = "aborted" /\ panic' = "bounds")]_vars

\* [1,0,0,0,99,target-5]: the trial of (0, 6) has read past the end, though
\* the later pair (2, 5) would have matched.
C9_Witness ==
    /\ input = <<I64(1), I64(0), I64(0), I64(0), I64(99), I64(Target - 5)>>
    /\ pc = "aborted" /\ panic = "bounds"
    /\ noun = 0 /\ verb = 6
    /\ ntrials = 7
    /\ stdout = <<>>

(***************************************************************************)
(* Properties of the fetch.                                                *)
(***************************************************************************)
\* C11 as stated: at the start of every fetch of the execute loop the
\* instruction pointer is a valid address of the memory.
C11_AsStated == pc = "execute" => InBounds(Memory, Ptr)

\* C11, amended: at the start of every fetch the instruction pointer is a
\* multiple of 4 between 0 and the length of the memory, the length
\* included; a fetch at a pointer that is not a valid address ends the
\* execution in a bounds failure at the opcode read, and after a Halt the
\* Cpu is discarded without another fetch.
C11_FetchPointer ==
    /\ [](pc = "execute" => Ptr % 4 = 0 /\ 0 <= Ptr /\ Ptr <= Len(Memory))
    /\ [][(pc = "execute" /\ ~InBounds(Memory, Ptr))
            => (BoundsFailure /\ last'.reads = <<Ptr>>)]_vars
    /\ [][(pc = "execute" /\ last'.tag = "Halt") => pc' = "compare"]_vars
    /\ [][pc = "compare" => cpu' = NoCpu]_vars

\* [1,0,0,0] patched by the trial of (0, 0): the Add has been executed and
\* the loop is about to fetch at pointer 4, the length of the memory.
C11_Witness ==
    /\ input = <<I64(1), I64(0), I64(0), I64(0)>>
    /\ pc = "execute"
    /\ executed = 1
    /\ Ptr = Len(Memory)

\* C12: each instruction is decoded from the cells of the memory at the
\* moment of its fetch, not from the initial image: when an earlier Add or
\* Mult has written into the opcode or operand cells of a later slot, the
\* later step executes what the rewritten cells say; [1,1,1,4,99,5,6,0,99]
\* rewrites cell 4 from 99 to 2, multiplies, and halts with cell 0 = 30.
C12_DecodedAtFetch ==
    /\ [][(pc = "execute" /\ InBounds(heap[program_copy.raw_program], Ptr)
           /\ InBounds(heap[program_copy.raw_program], Ptr + 3))
            => LET cells == heap[program_copy.raw_program]
                   tag == DecodeOpcode(ReadAt(cells, Ptr))
                   p0 == AsAddress(ReadAt(cells, Ptr + 1))
                   p1 == AsAddress(ReadAt(cells, Ptr + 2))
                   res == AsAddress(ReadAt(cells, Ptr + 3))
               IN  /\ last'.tag = tag /\ last'.at = Ptr
                   /\ pc' = "execute" =>
                        /\ last'.reads = <<Ptr, Ptr + 1, Ptr + 2, Ptr + 3,
                                           p0, p1, p0, p1>>
                        /\ last'.writes = <<res>>
                        /\ ReadAt(heap'[program_copy.raw_program], res)
                             = Arithmetic(tag, ReadAt(cells, p0), ReadAt(cells, p1))
          ]_vars
    /\ []((input = FromVec(<<1, 1, 1, 4, 99, 5, 6, 0, 99>>) /\ pc = "compare")
            => /\ heap[program_copy.raw_program]
                    = FromVec(<<30, 1, 1, 4, 2, 5, 6, 0, 99>>)
               /\ last.tag = "Halt" /\ last.at = 8)

\* [1,1,1,4,99,5,6,0,99]: the slot at 4, parsed as 99, has been executed as
\* a multiply after the Add at 0 wrote 2 into cell 4, leaving 30 in cell 0.
C12_Witness ==
    /\ input = FromVec(<<1, 1, 1, 4, 99, 5, 6, 0, 99>>)
    /\ pc = "execute"
    /\ last.tag = "Mult" /\ last.at = 4
    /\ ReadAt(input, 4) = I64(99)
    /\ ReadAt(heap[program_copy.raw_program], 4) = I64(2)
    /\ ReadAt(heap[program_copy.raw_program], 0) = I64(30)

(***************************************************************************)
(* Properties of SillyNumber.                                              *)
(***************************************************************************)
SixDigit(n) == n \in 100000..999999

\* The six decimal digits of n, read left to right.
LeftToRight(n) == [i \in 1..6 |-> (n \div Pow10(6 - i)) % 10]

NeverDecreases(d) == \A i \in 1..5 : d[i] <= d[i + 1]

\* Some maximal run of equal adjacent digits has length exactly 2.
HasRunOfTwo(d) ==
    \E i \in 1..5 :
        /\ d[i] = d[i + 1]
        /\ i = 1 \/ d[i - 1] # d[i]
        /\ i = 5 \/ d[i + 2] # d[i]

\* C13: for every six-digit number n, SillyNumber::new(n).is_valid_password()
\* is true exactly when the digits of n read left to right never decrease
\* and some maximal run of equal adjacent digits has length exactly 2
\* (longer runs neither count as a pair nor invalidate the number).
C13_ValidPassword ==
    (pc = "checked" /\ SixDigit(silly_number.number))
    => is_valid_password
         = << /\ NeverDecreases(LeftToRight(silly_number.number))
              /\ HasRunOfTwo(LeftToRight(silly_number.number)) >>

\* 111122, a run of four and a run of two, has been found valid.
C13_Witness ==
    /\ pc = "checked"
    /\ silly_number.number = 111122
    /\ silly_number.digits = <<2, 2, 1, 1, 1, 1>>
    /\ is_valid_password = <<TRUE>>

(***************************************************************************)
(* Properties of Edge.                                                     *)
(***************************************************************************)
\* The grid points of the closed segment from the origin of an edge to its
\* endpoint.
SegmentPoints(e) ==
    {[x |-> e.origin.x + k * (CASE e.direction = "Right" -> 1
                                [] e.direction = "Left"  -> -1
                                [] OTHER                 -> 0),
      y |-> e.origin.y + k * (CASE e.direction = "Up"   -> 1
                                [] e.direction = "Down" -> -1
                                [] OTHER                -> 0)] :
        k \in 0..e.magnitude}

Perpendicular(e, other) ==
    (e.direction \in {"Up", "Down"}) # (other.direction \in {"Up", "Down"})

\* C14: for two perpendicular edges, in any of the four directions and of
\* magnitude >= 1, is_crossing is true exactly when the closed segments from
\* origin to endpoint share a grid point, the origin and the endpoint of
\* either edge included; for two parallel edges it is false.
C14_AsStated ==
    (pc = "tested" /\ base_edge.magnitude >= 1 /\ crossing_edge.magnitude >= 1)
    => LET shared == /\ Perpendicular(crossing_edge, base_edge)
                     /\ SegmentPoints(crossing_edge) \cap SegmentPoints(base_edge)
                           # {}
       IN  crossed = <<shared, shared>>

(***************************************************************************)
(* Properties of the memory during an execution.                           *)
(***************************************************************************)
\* The addresses whose cell differs between two memories of one length.
ChangedCells(before, after) ==
    {a \in 0..(Len(before) - 1) : ReadAt(after, a) # ReadAt(before, a)}

\* C15: an Add or Mult step changes at most the one cell at its
\* destination address, every other cell keeps its value, and the length of
\* the memory is in every state of an execution what it was at construction.
C15_OneCellWritten ==
    /\ [][pc = "execute" =>
            /\ Len(Memory') = Len(Memory)
            /\ ChangedCells(Memory, Memory') # {} =>
                 /\ ArithmeticOpcode /\ OperandCellsInBounds
                 /\ ChangedCells(Memory, Memory') = {Operand(3)}
                 /\ last'.writes = <<Operand(3)>>]_vars
    /\ [](pc # "load" => Len(Memory) = Len(input))

\* [1,9,10,3,2,3,11,0,99,30,40,50]: the Add has changed cell 3, and no
\* other cell, from 3 to 70.
C15_Witness ==
    /\ input = FromVec(<<1, 9, 10, 3, 2, 3, 11, 0, 99, 30, 40, 50>>)
    /\ pc = "execute" /\ executed = 1
    /\ last.tag = "Add" /\ last.writes = <<3>>
    /\ ChangedCells(input, Memory) = {3}
    /\ ReadAt(Memory, 3) = I64(70)

(***************************************************************************)
(* Properties of the trials.                                               *)
(***************************************************************************)
\* The template with the pair patched in: what a trial is to start on.
Patched(template, n, v) == [template EXCEPT ![2] = I64(n), ![3] = I64(v)]

\* The memory a Cpu started with pointer 0 on a memory ends with, and how.
RECURSIVE RunFrom(_, _, _)
RunFrom(instruction_ptr, raw_program, checks) ==
    Eager(ExecuteStep(instruction_ptr, raw_program, checks), LAMBDA r :
        IF r.result = "continue"
        THEN RunFrom(r.instruction_ptr, r.raw_program, checks)
        ELSE [raw_program |-> r.raw_program, result |-> r.result,
              panic |-> r.panic])

\* A trial is about to execute its first instruction.
TrialStarts == pc = "execute" /\ last = NoStep

\* A trial has ended, in a return or in a panic, of execute.
TrialEnded ==
    \/ pc = "compare"
    \/ pc = "aborted" /\ last # NoStep

\* C16: in every state of the search the template program is the parsed
\* input, and every trial of (noun, verb) starts executing with pointer 0
\* on a memory equal to the template but for cell 1 = noun and cell 2 = verb;
\* so the outcome of a trial depends on the template and its pair only,
\* not on the trials before it.
C16_TrialsIsolated ==
    /\ pc # "main" => heap[program.raw_program] = input
    /\ TrialStarts =>
         /\ Ptr = 0
         /\ Memory = Patched(input, noun, verb)
    /\ TrialEnded =>
         LET outcome == RunFrom(0, Patched(input, noun, verb), overflow_checks)
         IN  /\ Memory = outcome.raw_program
             /\ panic = outcome.panic
             /\ (pc = "compare") = (outcome.result = "return")

\* The trial of (5, 10) on the template of 100 cells starts: each of the
\* 510 trials before it has written its sum into cell 0 of its own copy.
C16_Witness ==
    /\ Len(input) = LongLen
    /\ ReadAt(input, 5) = I64(5)
    /\ TrialStarts
    /\ noun = 5 /\ verb = 10
    /\ ntrials = 511
    /\ Memory = Patched(input, 5, 10)

\* The opcode cell of the instruction the trial stopped on.
StoppedOn == ReadAt(Memory, last.at)

SameLine(edge, other) ==
    /\ Parallel(edge, other)
    /\ IF Vertical(edge) THEN edge.origin.x = other.origin.x
                         ELSE edge.origin.y = other.origin.y

AllEdges == wire_0 \o wire_1

NoSharedLine ==
    \A i, j \in 1..Len(AllEdges) : i # j => ~SameLine(AllEdges[i], AllEdges[j])

\* C18: is_overlapping returns true only for two parallel edges that lie on
\* the same line and share a grid point, and so the assertion in
\* get_intersections never fails for two wires none of whose edges run
\* along the same line.
C18_AsStated ==
    /\ (pc = "get_intersections" /\ get_intersections.index <= Len(wire_0))
         => LET edge == wire_0[get_intersections.index]
                other_edge == wire_1[get_intersections.other_index]
                overlapping == IsOverlapping(edge, other_edge)
            IN  (~overlapping.panicked /\ overlapping.value)
                  => /\ SameLine(edge, other_edge)
                     /\ SegmentPoints(edge) \cap SegmentPoints(other_edge) # {}
    /\ (pc = "aborted" /\ panic = "overlapping") => ~NoSharedLine


(***************************************************************************)
(* Properties of SillyNumber::make_digits.                                 *)
(***************************************************************************)
\* C19: make_digits accepts only numbers of at most six decimal digits: for
\* every number of seven or more digits its assertion fails, and no
\* truncated six-digit vector is returned.
C19_AsStated ==
    (pc \in {"made", "checked"}) => silly_number.number < Pow10(DigitCount)

=============================================================================
